---- MODULE Spec2Model ----
(***************************************************************************)
(* Competition flow controller of the trading arena frontend:              *)
(* useCompetition + useCompetitionStatus + useCompetitionSteps, the        *)
(* competition service they call, the Dashboard parent that owns the       *)
(* status prop, and the server as the mock backend describes it.           *)
(*                                                                         *)
(* React 19 batches every state update made in one synchronous stretch of  *)
(* code (an event handler up to its first await, or the continuation of    *)
(* an await), renders once, and then runs the effects whose dependencies   *)
(* changed; an effect that sets state causes another render and effect     *)
(* pass.  One action of this model is one such stretch together with the   *)
(* render/effect passes that follow it (Settle).                           *)
(***************************************************************************)
EXTENDS Integers, Sequences, FiniteSets, Bags, TLC

\* ---------------------------------------------------------------- bounds
MaxInFlight == 2
MaxCalls == 2
MaxTimers == 2
MaxPasses == 4
QtyLen == 2        \* characters in the quantity input
MaxAmount == 2     \* largest price, balance and held quantity

\* ------------------------------------------------------------- constants
START == 1
STRATEGY == 2
TRADING == 3

NULL == "null"
Sentinel == "No strategy report available."
Texts == {"S1", "S2"}
ValidationMsg == "Please generate a strategy report first"
NetErr == "Request failed"

Status(r, p) == [known |-> TRUE, is_running |-> r, is_paused |-> p]
NoStatus == [known |-> FALSE, is_running |-> FALSE, is_paused |-> FALSE]
ServerStatuses == {Status(FALSE, FALSE), Status(TRUE, FALSE), Status(TRUE, TRUE)}

VARIABLES
  variant,             \* "named": hooks/useCompetitionSteps.js + useCompetitionStatus.js
                       \* "remount": the copies that seed the step and always fetch on mount
  mounted,             \* FALSE at the first render, TRUE once the mount effects ran
  competitionStatus,   \* useCompetitionStatus state
  parentStatus,        \* Dashboard's competitionStatus state (the prop)
  strategy, generatingStrategy, loading, error,
  currentStep, lastIsRunningRef, lastStrategyRef, isInitializedRef,
  isAutoLoadingRef,
  mockCompetitionState, mockStrategyState,   \* the server
  inflight,            \* bag of the requests in flight
  stepTimers,          \* pending setTimeout(() => setCurrentStep(TRADING))
  autoLoadTimers,      \* pending setTimeout(() => isAutoLoadingRef.current = false)
  calls,               \* handler invocations so far (bounded)
  lastEvent            \* history: the last client-side step, when it is the call of a
                       \* handler with nothing else pending or the resolution of that call

\* The trade form of the stock page (features/stock/hooks/useTrade.js).
VARIABLES
  tradeAction, tradeQuantity, trading, tradeSuccess, tradeError,   \* useTrade state
  tradeProps,          \* stock, accountId, accountBalance, accountPositions[ticker]
  tradeRequests        \* bag of the trade requests in flight

tradeVars == <<tradeAction, tradeQuantity, trading, tradeSuccess, tradeError,
               tradeProps, tradeRequests>>

vars == <<variant, mounted, competitionStatus, parentStatus, strategy,
          generatingStrategy, loading, error, currentStep, lastIsRunningRef,
          lastStrategyRef, isInitializedRef, isAutoLoadingRef,
          mockCompetitionState, mockStrategyState, inflight, stepTimers,
          autoLoadTimers, calls, lastEvent, tradeVars>>

\* ------------------------------------------------------------- helpers
Truthy(s) == s # NULL
B2S(b) == IF b THEN "true" ELSE "false"

\* competitionStatus?.is_running || false
IsRunning(st) == st.known /\ st.is_running
\* competitionStatus?.is_paused || false
IsPaused(st) == st.known /\ st.is_paused

\* The controller as one record: what a render sees plus the refs.
View == [status |-> competitionStatus, parent |-> parentStatus,
         strategy |-> strategy, generating |-> generatingStrategy,
         loading |-> loading, error |-> error, step |-> currentStep,
         lastRun |-> lastIsRunningRef, lastStrat |-> lastStrategyRef,
         inited |-> isInitializedRef, autoLoading |-> isAutoLoadingRef,
         launch |-> 0]

\* getInitialStep of the remount copy
getInitialStep(isRunning, hasStrategy) ==
  IF isRunning THEN TRADING ELSE IF hasStrategy THEN STRATEGY ELSE START

\* Variants of the rule with one slip each, used to show that the
\* properties below depend on the rule as written.
SyncRule_SwappedTargets(v, prevRun, prevStrat) ==
  LET run == IsRunning(v.status) IN
  IF v.loading THEN v
  ELSE IF run /\ prevRun # B2S(run) THEN [v EXCEPT !.step = TRADING]
  ELSE IF ~run /\ Truthy(v.strategy) /\ ~Truthy(prevStrat) THEN [v EXCEPT !.step = START]
  ELSE IF ~run /\ ~Truthy(v.strategy) /\ Truthy(prevStrat) THEN [v EXCEPT !.step = STRATEGY]
  ELSE v

SyncRule_RunningNotRequired(v, prevRun, prevStrat) ==
  LET run == IsRunning(v.status) IN
  IF v.loading THEN v
  ELSE IF prevRun # B2S(run) THEN [v EXCEPT !.step = TRADING]
  ELSE IF ~run /\ Truthy(v.strategy) /\ ~Truthy(prevStrat) THEN [v EXCEPT !.step = STRATEGY]
  ELSE IF ~run /\ ~Truthy(v.strategy) /\ Truthy(prevStrat) THEN [v EXCEPT !.step = START]
  ELSE v

SyncRule_NoPresenceCheck(v, prevRun, prevStrat) ==
  LET run == IsRunning(v.status) IN
  IF v.loading THEN v
  ELSE IF run /\ prevRun # B2S(run) THEN [v EXCEPT !.step = TRADING]
  ELSE IF ~run /\ Truthy(v.strategy) THEN [v EXCEPT !.step = STRATEGY]
  ELSE IF ~run /\ ~Truthy(v.strategy) /\ Truthy(prevStrat) THEN [v EXCEPT !.step = START]
  ELSE v

\* The rule of the sync effect after the refs were found changed
\* (useCompetitionSteps.js lines 36-51), given the previous refs.
SyncRule(v, prevRun, prevStrat) ==
  LET run == IsRunning(v.status) IN
  IF v.loading THEN v
  ELSE IF run /\ prevRun # B2S(run) THEN [v EXCEPT !.step = TRADING]
  ELSE IF ~run /\ Truthy(v.strategy) /\ ~Truthy(prevStrat) THEN [v EXCEPT !.step = STRATEGY]
  ELSE IF ~run /\ ~Truthy(v.strategy) /\ Truthy(prevStrat) THEN [v EXCEPT !.step = START]
  ELSE v

\* Body of the sync effect of useCompetitionSteps: r is the render it runs
\* for, v the controller it writes to (refs at once, state for next render).
SyncEffectBody(r, v) ==
  LET run == IsRunning(r.status) IN
  IF variant = "remount" /\ ~v.inited
  THEN [v EXCEPT !.lastRun = B2S(run), !.lastStrat = r.strategy, !.inited = TRUE,
                 !.step = getInitialStep(run, Truthy(r.strategy))]
  ELSE IF v.lastRun = B2S(run) /\ v.lastStrat = r.strategy THEN v
  ELSE LET w == [v EXCEPT !.lastRun = B2S(run), !.lastStrat = r.strategy]
           o == SyncRule([r EXCEPT !.step = v.step], v.lastRun, v.lastStrat)
       IN [w EXCEPT !.step = o.step]

\* Auto-load effect of useCompetition (lines 69-98): decides on the values
\* of the render r, reads and sets the ref of v.
AutoLoadEffectBody(r, v) ==
  IF r.step = STRATEGY /\ ~Truthy(r.strategy) /\ ~r.generating /\ ~v.autoLoading
  THEN [v EXCEPT !.autoLoading = TRUE, !.launch = v.launch + 1]
  ELSE v

\* the prop effect if it also handed the status it replaces up to the
\* Dashboard, whose new prop then comes down again
PropEffectBody_ReportsUp(r, v) ==
  IF ~r.parent.known \/ r.status = r.parent THEN v
  ELSE [v EXCEPT !.status = r.parent, !.parent = r.status]

\* Prop effect of useCompetitionStatus.  named: deps [prop], sets the prop
\* whenever it is non-null.  remount copy: deps [prop, status], sets the
\* prop only when is_running or is_paused differ from the held status.
PropEffectBody(r, v) ==
  IF ~r.parent.known THEN v
  ELSE IF variant = "named" THEN [v EXCEPT !.status = r.parent]
  ELSE IF IsRunning(r.status) # IsRunning(r.parent) \/ IsPaused(r.status) # IsPaused(r.parent)
       THEN [v EXCEPT !.status = r.parent]
       ELSE v

PropDeps(a) == IF variant = "named" THEN <<a.parent>> ELSE <<a.parent, a.status>>

SyncDeps(a) == <<IsRunning(a.status), a.strategy, a.loading>>
AutoDeps(a) == <<a.step, a.strategy, a.generating>>
RenderState(a) == <<a.status, a.parent, a.strategy, a.generating, a.loading, a.error, a.step>>

\* One render of r followed by its effects; p is the previous render
\* (first = TRUE: there is none, every effect runs).
Pass(first, p, r) ==
  LET v1 == IF first \/ PropDeps(p) # PropDeps(r) THEN PropEffectBody(r, r) ELSE r
      v2 == IF first \/ SyncDeps(p) # SyncDeps(r) THEN SyncEffectBody(r, v1) ELSE v1
      v3 == IF first \/ AutoDeps(p) # AutoDeps(r) THEN AutoLoadEffectBody(r, v2) ELSE v2
  IN v3

\* Render and run effects until no effect sets state any more.
RECURSIVE SettleFrom(_, _, _, _)
SettleFrom(first, p, r, fuel) ==
  CHOOSE res \in {IF RenderState(n) = RenderState(r) \/ fuel = 0 THEN n
                  ELSE SettleFrom(FALSE, r, n, fuel - 1) : n \in {Pass(first, p, r)}} : TRUE

Settle(p, r) ==
  CHOOSE res \in {SettleFrom(FALSE, pp, rr, MaxPasses) : pp \in {p}, rr \in {r}} : TRUE
SettleMount(r) ==
  CHOOSE res \in {SettleFrom(TRUE, rr, rr, MaxPasses) : rr \in {r}} : TRUE

\* ------------------------------------------------------------ requests
Snapshot(v) == [status |-> v.status, strategy |-> v.strategy, step |-> v.step,
                loading |-> v.loading, error |-> v.error]
NoSnapshot == [status |-> NoStatus, strategy |-> NULL, step |-> START,
               loading |-> FALSE, error |-> NULL]

\* A request of the given kind, as sent by code running in view v; cb is
\* the Dashboard status its onStatusChange callback closed over.
StatusKinds == {"start", "startTrading", "restart", "pause", "resume", "fetchStatus"}
StartKinds == {"start", "startTrading", "restart"}
StrategyKinds == {"generate", "autoload"}

NewOp(kind, phase, v) ==
  [kind |-> kind, phase |-> phase, ok |-> FALSE, status |-> NoStatus,
   strat |-> NULL, cb |-> IF kind \in StatusKinds THEN v.parent ELSE NoStatus]

One(op) == SetToBag({op})
Ops == BagToSet(inflight)
Copies(op, n) == IF n = 0 THEN EmptyBag ELSE [o \in {op} |-> n]

\* Write the controller back and start the auto-load fetches the effects fired.
Commit(v, f) ==
  \E w \in {v} :
    /\ BagCardinality(f) + w.launch <= MaxInFlight
    /\ competitionStatus' = w.status
    /\ parentStatus' = w.parent
    /\ strategy' = w.strategy
    /\ generatingStrategy' = w.generating
    /\ loading' = w.loading
    /\ error' = w.error
    /\ currentStep' = w.step
    /\ lastIsRunningRef' = w.lastRun
    /\ lastStrategyRef' = w.lastStrat
    /\ isInitializedRef' = w.inited
    /\ isAutoLoadingRef' = w.autoLoading
    /\ inflight' = f (+) Copies(NewOp("autoload", "get", w), w.launch)

\* History records.  pre is the controller when the handler was called.
Event(ev, kind, ok, pre) ==
  [ev |-> ev, kind |-> kind, ok |-> ok, pre |-> pre, sup |-> FALSE]
Other == Event("other", "none", FALSE, NoSnapshot)

\* (is_running, hasStrategy) goes from (false, false) to (true, false) with
\* loading true before and after.
Suppressed(st, strat, ld, st2, strat2, ld2) ==
  /\ ld /\ ld2
  /\ ~IsRunning(st) /\ IsRunning(st2)
  /\ ~Truthy(strat) /\ ~Truthy(strat2)

\* sup: such a change was made under loading and loading has stayed true
\* since, with the status still running and no strategy.
WithSup(e) ==
  [e EXCEPT !.sup =
     \/ Suppressed(competitionStatus, strategy, loading, competitionStatus', strategy', loading')
     \/ lastEvent.sup /\ loading' /\ IsRunning(competitionStatus') /\ ~Truthy(strategy')]

\* ---------------------------------------------------------- the trade form
\* tradeQuantity is a number or the text of the quantity input, a sequence
\* of characters.
Num(n) == [type |-> "number", num |-> n, str |-> <<>>]
Str(t) == [type |-> "string", num |-> 0, str |-> t]

\* useStockDetail before its data arrived: stock null, no human account,
\* balance 0, positions {}, the fetch of the mount effect pending
NoTradeProps ==
  [stock |-> [present |-> FALSE, current_price |-> 0], accountId |-> 0,
   accountBalance |-> 0, position |-> [owned |-> FALSE, quantity |-> 0],
   refetch |-> TRUE]

\* useTrade's useState initial values (useTrade.js lines 16-22)
TradeIdle ==
  /\ tradeAction = "BUY"
  /\ tradeQuantity = Num(1)
  /\ trading = FALSE
  /\ tradeSuccess = NULL
  /\ tradeError = NULL
  /\ tradeProps = NoTradeProps
  /\ tradeRequests = EmptyBag

\* ---------------------------------------------------------------- Init
\* State at the first render of the hook, before any effect has run.  The
\* page is loaded with the competition stopped or already running; the
\* Dashboard hands down the status it fetched, or null when its fetch
\* failed.
Init ==
  /\ variant \in {"named", "remount"}
  /\ mounted = FALSE
  /\ mockCompetitionState \in {Status(FALSE, FALSE), Status(TRUE, FALSE)}
  /\ mockStrategyState = NULL
  /\ parentStatus \in {NoStatus, mockCompetitionState}
  /\ competitionStatus = parentStatus
  /\ strategy = NULL
  /\ generatingStrategy = FALSE
  /\ loading = FALSE
  /\ error = NULL
  /\ currentStep = IF variant = "named" THEN START
                   ELSE getInitialStep(IsRunning(competitionStatus), Truthy(strategy))
  /\ lastIsRunningRef = IF variant = "named" THEN NULL ELSE B2S(IsRunning(competitionStatus))
  /\ lastStrategyRef = NULL
  /\ isInitializedRef = FALSE
  /\ isAutoLoadingRef = FALSE
  /\ inflight = EmptyBag
  /\ stepTimers = 0
  /\ autoLoadTimers = 0
  /\ calls = 0
  /\ lastEvent = Event("init", "none", FALSE, NoSnapshot)
  /\ TradeIdle

ServerUnchanged == UNCHANGED <<tradeVars, variant, mockCompetitionState, mockStrategyState>>

\* Mount: the effects of the first render.  The status hook fetches the
\* status (named: only when none was given; remount copy: always).
Mount ==
  /\ ~mounted
  /\ mounted' = TRUE
  /\ LET fetch == variant = "remount" \/ ~competitionStatus.known
     IN Commit(SettleMount(View),
               IF fetch THEN One(NewOp("fetchStatus", "get", View)) ELSE EmptyBag)
  /\ lastEvent' = WithSup(Event("mount", "none", TRUE, NoSnapshot))
  /\ ServerUnchanged
  /\ UNCHANGED <<stepTimers, autoLoadTimers, calls>>

\* ------------------------------------------------------------ handlers
NothingPending == inflight = EmptyBag /\ stepTimers = 0 /\ autoLoadTimers = 0

\* A handler's synchronous part: the batch b of state it sets, then the
\* request of the given kind it sends.
Send(kind, b) ==
  /\ mounted
  /\ Commit(Settle(View, b), inflight (+) One(NewOp(kind, "post", View)))
  /\ calls' = calls + 1
  /\ lastEvent' = WithSup(IF NothingPending THEN Event("invoke", kind, TRUE, Snapshot(View))
                                            ELSE Other)
  /\ ServerUnchanged
  /\ UNCHANGED <<mounted, stepTimers, autoLoadTimers>>

\* ... called at most MaxCalls times in a run.
Invoke(kind, b) == calls < MaxCalls /\ Send(kind, b)

\* A handler call that returns without sending a request, having set b.
Local(ev, kind, b) ==
  /\ mounted /\ calls < MaxCalls
  /\ Commit(Settle(View, b), inflight)
  /\ calls' = calls + 1
  /\ lastEvent' = WithSup(Event(ev, kind, FALSE, NoSnapshot))
  /\ ServerUnchanged
  /\ UNCHANGED <<mounted, stepTimers, autoLoadTimers>>

\* clearStrategy (useCompetition.js lines 121-124)
clearStrategy(v) == [v EXCEPT !.strategy = NULL, !.autoLoading = FALSE]

\* handleStartCompetition up to its await (lines 132-141)
StartBatch(v) == clearStrategy([v EXCEPT !.loading = TRUE, !.error = NULL, !.autoLoading = FALSE])
handleStartCompetition == Invoke("start", StartBatch(View))

\* handleStartTrading from its try to its await (lines 206-210)
StartTradingBatch(v) == [v EXCEPT !.loading = TRUE, !.error = NULL]

\* handleStartTrading without its validation return
handleStartTrading_NoValidation == Invoke("startTrading", StartTradingBatch(View))

\* handleStartTrading up to its await, or its validation return (lines 200-210)
handleStartTrading ==
  IF ~Truthy(strategy)
  THEN Local("validation", "startTrading", [View EXCEPT !.error = ValidationMsg])
  ELSE Invoke("startTrading", StartTradingBatch(View))

\* handleGenerateStrategy -> generateStrategyInternal up to its await
\* (lines 101-105, 188-189); generate and regenerate differ only in the
\* endpoint the service posts to.
GenerateBatch(v) == [v EXCEPT !.generating = TRUE]

handleGenerateStrategy ==
  \E isRegenerate \in BOOLEAN :
    Invoke("generate", GenerateBatch(View))

\* handlePauseTrading / handleContinueTrading up to the await (lines 237-240, 257-260)
handlePauseTrading == Invoke("pause", [View EXCEPT !.error = NULL])
handleContinueTrading == Invoke("resume", [View EXCEPT !.error = NULL])

\* handleRestartCompetition / handleRestartFromTrading (the same code
\* twice): setError(null), then restartCompetition asks window.confirm;
\* declined, it returns cancelled without a request and the handler
\* returns (lines 162-169, 277-284; index.js lines 104-111).
\* the restart handler if it treated {cancelled: true} as a failed result
Restart_CancelIsError ==
  \E confirmed \in BOOLEAN :
    IF confirmed
    THEN Invoke("restart", [View EXCEPT !.error = NULL])
    ELSE Local("cancel", "restart", [View EXCEPT !.error = NetErr])

Restart ==
  \E confirmed \in BOOLEAN :
    IF confirmed
    THEN Invoke("restart", [View EXCEPT !.error = NULL])
    ELSE Local("cancel", "restart", [View EXCEPT !.error = NULL])

handleRestartCompetition == Restart
handleRestartFromTrading == Restart

\* -------------------------------------------------------------- server
ClientUnchanged == UNCHANGED <<tradeVars, variant, mounted, competitionStatus, parentStatus, strategy,
                               generatingStrategy, loading, error, currentStep, lastIsRunningRef,
                               lastStrategyRef, isInitializedRef, isAutoLoadingRef, stepTimers,
                               autoLoadTimers, calls, lastEvent>>

Replace(op, new) == (inflight (-) One(op)) (+) One(new)

\* the service function if it had no catch: the rejection of the awaited
\* call leaves it as an exception
Caught_Rethrows(op) == [op EXCEPT !.phase = "thrown"]

\* The catch around the awaited calls of a service function: whatever
\* they threw, the function returns {success: false, error}
\* (index.js lines 49-53, 64-68, 79-83, 94-98, 117-121).
Caught(op) == [op EXCEPT !.phase = "resp", !.ok = FALSE, !.status = NoStatus, !.strat = NULL]

\* The request fails before the server acts on it (transport error,
\* timeout, non-2xx): the service function's catch turns it into
\* {success: false, error} (index.js lines 49-53, 64-68, 79-83, 94-98, 117-121).
RequestFails(op) ==
  /\ op.phase \in {"post", "get"}
  /\ inflight' = Replace(op, Caught(op))
  /\ ClientUnchanged
  /\ UNCHANGED <<mockCompetitionState, mockStrategyState>>

\* What the POST of a request does to the server: start and restart reset
\* the competition to running/unpaused and either drop the strategy (mock
\* backend) or generate one (backend README); pause and resume act only on
\* a running competition; generate and regenerate store a fresh strategy.
PostEffect(kind) ==
  IF kind \in StartKinds
  THEN /\ mockCompetitionState' = Status(TRUE, FALSE)
       /\ mockStrategyState' \in {NULL, "S1"}
  ELSE IF kind \in {"pause", "resume"}
  THEN /\ mockCompetitionState' = IF mockCompetitionState.is_running
                                   THEN [mockCompetitionState EXCEPT !.is_paused = (kind = "pause")]
                                   ELSE mockCompetitionState
       /\ UNCHANGED mockStrategyState
  ELSE /\ mockStrategyState' = (IF mockStrategyState = "S1" THEN "S2" ELSE "S1")
       /\ UNCHANGED mockCompetitionState

\* The server handles the POST.  A status operation awaits the POST and
\* then at once the GET of the status, which the server answers back to
\* back (the answer may still be lost on its way); generateStrategy waits
\* STRATEGY_LOAD_DELAY before its GET, which is a step of its own.
ServerPost(op) ==
  /\ op.phase = "post"
  /\ PostEffect(op.kind)
  /\ IF op.kind = "generate"
     THEN inflight' = Replace(op, [op EXCEPT !.phase = "get"])
     ELSE \E delivered \in BOOLEAN :
            inflight' = Replace(op, IF delivered
                                    THEN [op EXCEPT !.phase = "resp", !.ok = TRUE,
                                                    !.status = mockCompetitionState']
                                    ELSE Caught(op))
  /\ ClientUnchanged

\* formatStrategyContent on the payload of getLatestStrategy: the report
\* text, or the sentinel when the payload has no content
\* (formatStrategy.js lines 9-26).
formatStrategyContent(payload) == IF payload = NULL THEN Sentinel ELSE payload

\* The server answers a GET: the status (mount fetch), or the latest
\* strategy, which the client formats.
ServerGet(op) ==
  /\ op.phase = "get"
  /\ \/ /\ op.kind \in StatusKinds
        /\ inflight' = Replace(op, [op EXCEPT !.phase = "resp", !.ok = TRUE,
                                              !.status = mockCompetitionState])
     \/ /\ op.kind \in StrategyKinds
        /\ inflight' = Replace(op, [op EXCEPT !.phase = "resp", !.ok = TRUE,
                                              !.strat = formatStrategyContent(mockStrategyState)])
  /\ ClientUnchanged
  /\ UNCHANGED <<mockCompetitionState, mockStrategyState>>

\* --------------------------------------------------- continuations
\* handleCompetitionError: the message shown for a failed result
\* (errorHandler.js lines 8-21)
handleCompetitionError(v, op) == [v EXCEPT !.error = NetErr]

\* updateStatus (useCompetitionStatus.js lines 48-53) with Dashboard's
\* handleCompetitionStatusChange (Dashboard.jsx lines 80-87) as
\* onStatusChange; cb is the Dashboard status the callback closed over.
updateStatus(v, newStatus, cb) ==
  LET same == cb.known /\ cb.is_running = newStatus.is_running
                       /\ cb.is_paused = newStatus.is_paused
  IN [v EXCEPT !.status = newStatus,
               !.parent = IF same THEN v.parent ELSE newStatus]

\* The state the continuation of request op sets in one batch.
AfterStart(v, op) ==
  LET w == IF op.ok /\ op.status.known
           THEN [updateStatus(v, op.status, op.cb) EXCEPT !.step = STRATEGY]
           ELSE handleCompetitionError(v, op)
  IN [w EXCEPT !.loading = FALSE]

AfterStartTrading(v, op) ==
  LET w == IF op.ok /\ op.status.known
           THEN [updateStatus(v, op.status, op.cb) EXCEPT !.lastRun = B2S(IsRunning(op.status))]
           ELSE handleCompetitionError(v, op)
  IN [w EXCEPT !.loading = FALSE]

AfterRestart(v, op) ==
  IF op.ok /\ op.status.known
  THEN [clearStrategy(updateStatus(v, op.status, op.cb)) EXCEPT !.step = STRATEGY]
  ELSE handleCompetitionError(v, op)

\* the pause/resume continuation if it also re-derived the step
AfterPauseResume_MovesStep(v, op) ==
  IF op.ok /\ op.status.known
  THEN [updateStatus(v, op.status, op.cb) EXCEPT
          !.step = IF IsPaused(op.status) THEN STRATEGY ELSE v.step]
  ELSE handleCompetitionError(v, op)

AfterPauseResume(v, op) ==
  IF op.ok /\ op.status.known
  THEN updateStatus(v, op.status, op.cb)
  ELSE handleCompetitionError(v, op)

\* generateStrategyInternal without its finally
AfterGenerate_NoFinally(v, op) ==
  IF op.ok /\ Truthy(op.strat)
  THEN [v EXCEPT !.strategy = op.strat]
  ELSE handleCompetitionError(v, op)

AfterGenerate(v, op) ==
  LET w == IF op.ok /\ Truthy(op.strat)
           THEN [v EXCEPT !.strategy = op.strat]
           ELSE handleCompetitionError(v, op)
  IN [w EXCEPT !.generating = FALSE]

\* loadStrategyIfNeeded without its test for the sentinel text
AfterAutoLoad_StoresSentinel(v, op) ==
  IF op.ok /\ Truthy(op.strat)
  THEN [v EXCEPT !.strategy = op.strat]
  ELSE v

AfterAutoLoad(v, op) ==
  IF op.ok /\ Truthy(op.strat) /\ op.strat # Sentinel
  THEN [v EXCEPT !.strategy = op.strat]
  ELSE v

\* fetchStatus of the mount effect: setCompetitionStatus, then onStatusChange
AfterFetchStatus(v, op) ==
  IF op.ok THEN updateStatus(v, op.status, op.cb) ELSE v

\* The response of request op reaches the client: the handler's
\* continuation sets the batch b, then render and effects; dStep and dAuto
\* are the timers the continuation starts.
Resolve(op, kinds, b, dStep, dAuto) ==
  /\ op.phase = "resp"
  /\ op.kind \in kinds
  /\ stepTimers + dStep <= MaxTimers
  /\ autoLoadTimers + dAuto <= MaxTimers
  /\ Commit(Settle(View, b), inflight (-) One(op))
  /\ stepTimers' = stepTimers + dStep
  /\ autoLoadTimers' = autoLoadTimers + dAuto
  /\ LET mine == lastEvent.ev = "invoke" /\ lastEvent.kind = op.kind IN
     lastEvent' = WithSup(IF mine THEN Event("resolve", op.kind, op.ok, lastEvent.pre)
                                  ELSE Other)
  /\ ServerUnchanged
  /\ UNCHANGED <<mounted, calls>>

ResolveStart(op) == Resolve(op, {"start"}, AfterStart(View, op), 0, 0)

\* handleStartTrading's continuation without its setCurrentStep(TRADING, STEP_DELAY)
ResolveStartTrading_NoTimer(op) ==
  Resolve(op, {"startTrading"}, AfterStartTrading(View, op), 0, 0)

ResolveStartTrading(op) ==
  Resolve(op, {"startTrading"}, AfterStartTrading(View, op),
          IF op.ok /\ op.status.known THEN 1 ELSE 0, 0)
ResolveRestart(op) == Resolve(op, {"restart"}, AfterRestart(View, op), 0, 0)
ResolvePauseResume(op) == Resolve(op, {"pause", "resume"}, AfterPauseResume(View, op), 0, 0)
ResolveGenerate(op) == Resolve(op, {"generate"}, AfterGenerate(View, op), 0, 0)
ResolveAutoLoad(op) == Resolve(op, {"autoload"}, AfterAutoLoad(View, op), 0, 1)
ResolveFetchStatus(op) == Resolve(op, {"fetchStatus"}, AfterFetchStatus(View, op), 0, 0)

\* ---------------------------------------------------------------- timers
\* setStep(TRADING, STEP_DELAY) fires (useCompetitionSteps.js lines 60-64)
StepTimerFires ==
  /\ stepTimers > 0
  /\ stepTimers' = stepTimers - 1
  /\ Commit(Settle(View, [View EXCEPT !.step = TRADING]), inflight)
  /\ lastEvent' = WithSup(Other)
  /\ ServerUnchanged
  /\ UNCHANGED <<mounted, autoLoadTimers, calls>>

\* the auto-load cooldown fires (useCompetition.js lines 90-92); a ref
\* write, no render
AutoLoadTimerFires ==
  /\ autoLoadTimers > 0
  /\ autoLoadTimers' = autoLoadTimers - 1
  /\ isAutoLoadingRef' = FALSE
  /\ ServerUnchanged
  /\ UNCHANGED <<mounted, competitionStatus, parentStatus, strategy, generatingStrategy,
                 loading, error, currentStep, lastIsRunningRef, lastStrategyRef, isInitializedRef,
                 inflight, stepTimers, calls, lastEvent>>

Next ==
  \/ Mount
  \/ handleStartCompetition
  \/ handleStartTrading
  \/ handleGenerateStrategy
  \/ handlePauseTrading
  \/ handleContinueTrading
  \/ handleRestartCompetition
  \/ handleRestartFromTrading
  \/ \E op \in Ops : RequestFails(op)
  \/ \E op \in Ops : ServerPost(op)
  \/ \E op \in Ops : ServerGet(op)
  \/ \E op \in Ops : ResolveStart(op)
  \/ \E op \in Ops : ResolveStartTrading(op)
  \/ \E op \in Ops : ResolveRestart(op)
  \/ \E op \in Ops : ResolvePauseResume(op)
  \/ \E op \in Ops : ResolveGenerate(op)
  \/ \E op \in Ops : ResolveAutoLoad(op)
  \/ \E op \in Ops : ResolveFetchStatus(op)
  \/ StepTimerFires
  \/ AutoLoadTimerFires

Spec == Init /\ [][Next]_vars

\* A timer started with setTimeout fires: the event loop runs its callback
\* once the delay has passed (nothing in the hooks clears it).
SpecFair == Spec /\ WF_vars(StepTimerFires)

TypeOK ==
  /\ currentStep \in {START, STRATEGY, TRADING}
  /\ strategy \in {NULL, Sentinel} \cup Texts
  /\ loading \in BOOLEAN /\ generatingStrategy \in BOOLEAN
  /\ stepTimers \in 0..MaxTimers /\ autoLoadTimers \in 0..MaxTimers
  /\ mockCompetitionState \in ServerStatuses
  /\ mockStrategyState \in {NULL} \cup Texts
  /\ BagCardinality(inflight) <= MaxInFlight /\ calls \in 0..MaxCalls

\* ------------------------------------------------ the steps hook alone
\* useCompetitionSteps({is_running, strategy, loading}) driven directly by
\* its three props: competitionStatus carries is_running, strategy and
\* loading are the props; nothing else of the controller takes part.
StepsFrame == UNCHANGED <<tradeVars, variant, parentStatus, generatingStrategy, error, isAutoLoadingRef,
                          mockCompetitionState, mockStrategyState, inflight, autoLoadTimers,
                          calls>>

StrategyProps == {NULL, Sentinel} \cup Texts

InitSteps ==
  /\ variant \in {"named", "remount"}
  /\ mounted = FALSE
  /\ competitionStatus \in {Status(FALSE, FALSE), Status(TRUE, FALSE)}
  /\ strategy \in StrategyProps
  /\ loading \in BOOLEAN
  /\ currentStep = IF variant = "named" THEN START
                   ELSE getInitialStep(IsRunning(competitionStatus), Truthy(strategy))
  /\ lastIsRunningRef = IF variant = "named" THEN NULL ELSE B2S(IsRunning(competitionStatus))
  /\ lastStrategyRef = IF variant = "named" THEN NULL ELSE strategy
  /\ isInitializedRef = FALSE
  /\ parentStatus = NoStatus
  /\ generatingStrategy = FALSE
  /\ error = NULL
  /\ isAutoLoadingRef = FALSE
  /\ mockCompetitionState = Status(FALSE, FALSE)
  /\ mockStrategyState = NULL
  /\ inflight = EmptyBag
  /\ stepTimers = 0
  /\ autoLoadTimers = 0
  /\ calls = 0
  /\ lastEvent = Event("init", "none", FALSE, NoSnapshot)
  /\ TradeIdle

\* The hook's state after the render r and its sync effect; p is the
\* previous render.
StepsPass(first, p, r) ==
  IF first \/ SyncDeps(p) # SyncDeps(r) THEN SyncEffectBody(r, r) ELSE r

CommitSteps(v) ==
  /\ competitionStatus' = v.status
  /\ strategy' = v.strategy
  /\ loading' = v.loading
  /\ currentStep' = v.step
  /\ lastIsRunningRef' = v.lastRun
  /\ lastStrategyRef' = v.lastStrat
  /\ isInitializedRef' = v.inited

MountSteps ==
  /\ ~mounted
  /\ mounted' = TRUE
  /\ CommitSteps(StepsPass(TRUE, View, View))
  /\ lastEvent' = Event("mount", "none", TRUE, NoSnapshot)
  /\ UNCHANGED stepTimers
  /\ StepsFrame

\* The parent renders the hook with new props.
Rerender ==
  /\ mounted
  /\ \E run \in BOOLEAN, s \in StrategyProps, l \in BOOLEAN :
       /\ <<run, s, l>> # <<IsRunning(competitionStatus), strategy, loading>>
       /\ CommitSteps(StepsPass(FALSE, View,
                                [View EXCEPT !.status = Status(run, FALSE), !.strategy = s, !.loading = l]))
  /\ lastEvent' = Event("rerender", "props", TRUE, NoSnapshot)
  /\ UNCHANGED <<mounted, stepTimers>>
  /\ StepsFrame

\* The caller writes lastIsRunningRef through getRefs and then changes
\* is_running to that value, as handleStartTrading does (lines 213-218).
RefWriteRerender ==
  /\ mounted
  /\ \E run \in BOOLEAN :
       CommitSteps(StepsPass(FALSE, View,
                             [View EXCEPT !.lastRun = B2S(run), !.status = Status(run, FALSE)]))
  /\ lastEvent' = Event("refWrite", "props", TRUE, NoSnapshot)
  /\ UNCHANGED <<mounted, stepTimers>>
  /\ StepsFrame

\* setStep(step, 0) (useCompetitionSteps.js lines 60-68)
SetStepNow ==
  /\ mounted
  /\ \E step \in {START, STRATEGY, TRADING} :
       CommitSteps(StepsPass(FALSE, View, [View EXCEPT !.step = step]))
  /\ lastEvent' = Event("setStep", "none", TRUE, NoSnapshot)
  /\ UNCHANGED <<mounted, stepTimers>>
  /\ StepsFrame

\* setStep(TRADING, STEP_DELAY): the timer is started ...
SetStepDelayed ==
  /\ mounted
  /\ stepTimers < MaxTimers
  /\ stepTimers' = stepTimers + 1
  /\ lastEvent' = Event("setStepDelayed", "none", TRUE, NoSnapshot)
  /\ UNCHANGED <<mounted, competitionStatus, strategy, loading, currentStep, lastIsRunningRef,
                 lastStrategyRef, isInitializedRef>>
  /\ StepsFrame

\* ... and fires.
StepTimerFiresSteps ==
  /\ stepTimers > 0
  /\ stepTimers' = stepTimers - 1
  /\ CommitSteps(StepsPass(FALSE, View, [View EXCEPT !.step = TRADING]))
  /\ lastEvent' = Event("stepTimer", "none", TRUE, NoSnapshot)
  /\ UNCHANGED mounted
  /\ StepsFrame

NextSteps ==
  \/ MountSteps
  \/ Rerender
  \/ RefWriteRerender
  \/ SetStepNow
  \/ SetStepDelayed
  \/ StepTimerFiresSteps

SpecSteps == InitSteps /\ [][NextSteps]_vars

\* ------------------------------------------- the start-to-trading flow
\* The controller of Spec driven through the flow of the README: the
\* competition is stopped, the user clicks Start Competition, Generate
\* Strategy and Start Trading, each once the requests before it have been
\* answered, and every call succeeds.
Quiet == inflight = EmptyBag /\ stepTimers = 0

InitScenario == Init /\ mockCompetitionState = Status(FALSE, FALSE)

ScenarioStart == calls = 0 /\ Quiet /\ Send("start", StartBatch(View))
ScenarioGenerate == calls = 1 /\ Quiet /\ Send("generate", GenerateBatch(View))
ScenarioStartTrading ==
  calls = 2 /\ Quiet /\ Truthy(strategy) /\ Send("startTrading", StartTradingBatch(View))

\* the server handles the POST and its answer reaches the client
ServerPostSucceeds(op) ==
  /\ ServerPost(op)
  /\ \A o \in BagToSet(inflight') : o.phase = "resp" => o.ok

NextScenario ==
  \/ Mount
  \/ ScenarioStart
  \/ ScenarioGenerate
  \/ ScenarioStartTrading
  \/ \E op \in Ops : ServerPostSucceeds(op)
  \/ \E op \in Ops : ServerGet(op)
  \/ \E op \in Ops : ResolveStart(op)
  \/ \E op \in Ops : ResolveGenerate(op)
  \/ \E op \in Ops : ResolveStartTrading(op)
  \/ \E op \in Ops : ResolveAutoLoad(op)
  \/ \E op \in Ops : ResolveFetchStatus(op)
  \/ StepTimerFires
  \/ AutoLoadTimerFires

SpecScenario == InitScenario /\ [][NextScenario]_vars

\* ----------------------------------------------- the status hook alone
\* useCompetitionStatus with the badge that shows its flags, fed by its
\* prop, by the mount fetch and by updateStatus with whatever status the
\* server returns (the backend is not part of this repository).
AnyStatuses == {Status(r, p) : r \in BOOLEAN, p \in BOOLEAN}

\* CompetitionStatusBadge.getStatusDisplay: the class of the badge
getStatusDisplay(is_running, is_paused) ==
  IF is_running /\ ~is_paused THEN "running"
  ELSE IF is_paused THEN "paused"
  ELSE "stopped"

\* The badge as CompetitionFlow renders it from the hook's flags.
StatusDisplay == getStatusDisplay(IsRunning(competitionStatus), IsPaused(competitionStatus))

StatusFrame == UNCHANGED <<tradeVars, variant, strategy, generatingStrategy, loading, error, currentStep,
                           lastIsRunningRef, lastStrategyRef, isInitializedRef, isAutoLoadingRef,
                           mockCompetitionState, mockStrategyState, stepTimers, autoLoadTimers,
                           calls>>

InitStatus ==
  /\ variant \in {"named", "remount"}
  /\ mounted = FALSE
  /\ parentStatus \in {NoStatus} \cup AnyStatuses
  /\ competitionStatus = parentStatus
  /\ strategy = NULL
  /\ generatingStrategy = FALSE
  /\ loading = FALSE
  /\ error = NULL
  /\ currentStep = START
  /\ lastIsRunningRef = NULL
  /\ lastStrategyRef = NULL
  /\ isInitializedRef = FALSE
  /\ isAutoLoadingRef = FALSE
  /\ mockCompetitionState = Status(FALSE, FALSE)
  /\ mockStrategyState = NULL
  /\ inflight = EmptyBag
  /\ stepTimers = 0
  /\ autoLoadTimers = 0
  /\ calls = 0
  /\ lastEvent = Event("init", "none", FALSE, NoSnapshot)
  /\ TradeIdle

\* The hook's state after the render r and its prop effect; p is the
\* previous render.  The effect's setCompetitionStatus(prop) is a fixpoint
\* after one pass.
StatusPass(first, p, r) ==
  IF first \/ PropDeps(p) # PropDeps(r) THEN PropEffectBody(r, r) ELSE r

CommitStatus(v, f) ==
  /\ competitionStatus' = v.status
  /\ parentStatus' = v.parent
  /\ inflight' = f

MountStatus ==
  /\ ~mounted
  /\ mounted' = TRUE
  /\ LET fetch == variant = "remount" \/ ~competitionStatus.known
     IN CommitStatus(StatusPass(TRUE, View, View),
                     IF fetch THEN One(NewOp("fetchStatus", "get", View)) ELSE EmptyBag)
  /\ lastEvent' = Event("mount", "none", TRUE, NoSnapshot)
  /\ StatusFrame

\* getCompetitionStatus is answered with some status, or fails.
StatusAnswered(op) ==
  /\ op.phase = "get"
  /\ \E ok \in BOOLEAN, st \in AnyStatuses :
       inflight' = Replace(op, [op EXCEPT !.phase = "resp", !.ok = ok,
                                          !.status = IF ok THEN st ELSE NoStatus])
  /\ UNCHANGED <<mounted, competitionStatus, parentStatus, lastEvent>>
  /\ StatusFrame

\* the continuation of the mount fetch
StatusFetched(op) ==
  /\ op.phase = "resp"
  /\ CommitStatus(StatusPass(FALSE, View, AfterFetchStatus(View, op)), inflight (-) One(op))
  /\ lastEvent' = Event("resolve", "fetchStatus", op.ok, NoSnapshot)
  /\ UNCHANGED mounted
  /\ StatusFrame

\* The parent renders the hook with another initialCompetitionStatus.
PropChanges ==
  /\ mounted
  /\ \E st \in AnyStatuses :
       /\ st # parentStatus
       /\ CommitStatus(StatusPass(FALSE, View, [View EXCEPT !.parent = st]), inflight)
  /\ lastEvent' = Event("rerender", "props", TRUE, NoSnapshot)
  /\ UNCHANGED mounted
  /\ StatusFrame

\* A handler passes the status of its result to setCompetitionStatus
\* (updateStatus).
SetStatus ==
  /\ mounted
  /\ \E st \in AnyStatuses :
       CommitStatus(StatusPass(FALSE, View, updateStatus(View, st, parentStatus)), inflight)
  /\ lastEvent' = Event("updateStatus", "none", TRUE, NoSnapshot)
  /\ UNCHANGED mounted
  /\ StatusFrame

NextStatus ==
  \/ MountStatus
  \/ \E op \in Ops : StatusAnswered(op)
  \/ \E op \in Ops : StatusFetched(op)
  \/ PropChanges
  \/ SetStatus

SpecStatus == InitStatus /\ [][NextStatus]_vars

\* ---------------------------------------------- formatStrategyContent
\* The two copies of formatStrategyContent applied to a payload of
\* getLatestStrategy: lib/utils/formatStrategy.js (used by the competition
\* hooks and the strategy report) and utils/formatStrategy.js (used by
\* Dashboard.jsx).  A payload is given by the shape of its content and by
\* which sections it carries; the text is given by the sequence of the
\* blocks it is made of.  mockStrategyState holds the payload, strategy
\* the text, variant the copy.
Payloads ==
  {p \in [content : {"nodata", "nullstrategy", "absent", "text", "object"},
          summary : BOOLEAN,
          selected_stocks : BOOLEAN,            \* top-level selected_stocks, non-empty
          content_selected_stocks : BOOLEAN,    \* selected_stocks inside the content
          trading_rules : BOOLEAN, trading_strategies : BOOLEAN,
          stock_preferences : BOOLEAN, actions : BOOLEAN] :
     /\ p.content # "object"
          => ~p.summary /\ ~p.content_selected_stocks /\ ~p.trading_rules
             /\ ~p.trading_strategies /\ ~p.stock_preferences /\ ~p.actions
     /\ p.content \in {"nodata", "nullstrategy"} => ~p.selected_stocks}

Block(present, tag) == IF present THEN <<tag>> ELSE <<>>

\* the intro line put before the actions when nothing precedes them
WithIntro(text) == IF text = <<>> THEN <<"intro">> ELSE text

\* lib/utils/formatStrategy.js
formatStrategyContentLib(p) ==
  IF p.content \in {"nodata", "nullstrategy", "absent"} THEN <<"sentinel">>
  ELSE IF p.content = "text" THEN <<"plain">>
  ELSE LET t1 == Block(p.summary, "summary")
           t2 == t1 \o Block(p.selected_stocks \/ p.content_selected_stocks, "selected_stocks")
           t3 == t2 \o Block(p.trading_rules, "trading_rules")
           t4 == t3 \o Block(p.trading_strategies, "trading_strategies")
           t5 == t4 \o Block(p.stock_preferences, "stock_preferences")
           t6 == IF p.actions THEN WithIntro(t5) \o <<"actions">> ELSE t5
       IN IF t6 = <<>> THEN <<"fallback">> ELSE t6

\* utils/formatStrategy.js
formatStrategyContentOld(p) ==
  IF p.content \in {"nodata", "nullstrategy", "absent"} THEN <<"sentinel">>
  ELSE IF p.content = "text" THEN <<"plain">>
  ELSE LET t1 == Block(p.summary, "summary")
           t2 == IF p.actions THEN WithIntro(t1) \o <<"actions">> ELSE t1
           t3 == t2 \o Block(p.selected_stocks, "selected_stocks")
       IN IF t3 = <<>> THEN <<"fallback">> ELSE t3

FormatCopies == {"lib/utils/formatStrategy.js", "utils/formatStrategy.js"}

FormatFrame == UNCHANGED <<tradeVars, variant, mounted, competitionStatus, parentStatus, generatingStrategy,
                           loading, error, currentStep, lastIsRunningRef, lastStrategyRef,
                           isInitializedRef, isAutoLoadingRef, mockCompetitionState, inflight,
                           stepTimers, autoLoadTimers, calls>>

InitFormat ==
  /\ variant \in FormatCopies
  /\ mockStrategyState \in Payloads
  /\ strategy = <<>>
  /\ mounted = TRUE
  /\ competitionStatus = NoStatus
  /\ parentStatus = NoStatus
  /\ generatingStrategy = FALSE
  /\ loading = FALSE
  /\ error = NULL
  /\ currentStep = START
  /\ lastIsRunningRef = NULL
  /\ lastStrategyRef = NULL
  /\ isInitializedRef = FALSE
  /\ isAutoLoadingRef = FALSE
  /\ mockCompetitionState = Status(FALSE, FALSE)
  /\ inflight = EmptyBag
  /\ stepTimers = 0
  /\ autoLoadTimers = 0
  /\ calls = 0
  /\ lastEvent = Event("init", "none", FALSE, NoSnapshot)
  /\ TradeIdle

\* const strategyText = formatStrategyContent(strategyData)
Format ==
  /\ strategy = <<>>
  /\ strategy' = IF variant = "lib/utils/formatStrategy.js"
                 THEN formatStrategyContentLib(mockStrategyState)
                 ELSE formatStrategyContentOld(mockStrategyState)
  /\ lastEvent' = Event("format", "none", TRUE, NoSnapshot)
  /\ UNCHANGED mockStrategyState
  /\ FormatFrame

\* The next getLatestStrategy returns another payload.
NextPayload ==
  /\ strategy # <<>>
  /\ mockStrategyState' \in Payloads
  /\ strategy' = <<>>
  /\ lastEvent' = Event("payload", "none", TRUE, NoSnapshot)
  /\ FormatFrame

NextFormat == Format \/ NextPayload

SpecFormat == InitFormat /\ [][NextFormat]_vars

\* The requests of a kind in a bag, and how many they are.
InFlight(bag, kind) == {op \in BagToSet(bag) : op.kind = kind}
Count(bag, kind) == BagCardinality([op \in InFlight(bag, kind) |-> bag[op]])

\* ------------------------------------------------------------ teardown
\* The controller of Spec with the page being left: React unmounts the
\* Dashboard and the flow with it.  No effect of the hooks returns a
\* cleanup, so the requests in flight and the timers started with
\* setTimeout stay as they are; their callbacks run later on the unmounted
\* component, where React drops every setState while ref writes and
\* setTimeout calls take place as before.
TornDown == lastEvent.ev = "unmount"

Unmount ==
  /\ mounted /\ ~TornDown
  /\ lastEvent' = Event("unmount", "none", TRUE, NoSnapshot)
  /\ UNCHANGED <<tradeVars, variant, mounted, competitionStatus, parentStatus, strategy,
                 generatingStrategy, loading, error, currentStep, lastIsRunningRef,
                 lastStrategyRef, isInitializedRef, isAutoLoadingRef,
                 mockCompetitionState, mockStrategyState, inflight, stepTimers,
                 autoLoadTimers, calls>>

\* The batch the continuation of request op sets.
After(v, op) ==
  CASE op.kind = "start" -> AfterStart(v, op)
    [] op.kind = "startTrading" -> AfterStartTrading(v, op)
    [] op.kind = "restart" -> AfterRestart(v, op)
    [] op.kind \in {"pause", "resume"} -> AfterPauseResume(v, op)
    [] op.kind = "generate" -> AfterGenerate(v, op)
    [] op.kind = "autoload" -> AfterAutoLoad(v, op)
    [] op.kind = "fetchStatus" -> AfterFetchStatus(v, op)

\* The state of the unmounted hooks, which no setState reaches any more.
DisposedState == <<competitionStatus, parentStatus, strategy, generatingStrategy, loading,
                   error, currentStep>>

\* The response of request op arrives after the unmount and the handler's
\* continuation runs: its setState calls are dropped, its ref writes
\* (lastIsRunningRef in handleStartTrading, isAutoLoadingRef in
\* clearStrategy) and its setTimeout calls are carried out.
StaleResponse(op) ==
  LET b == After(View, op)
      dStep == IF op.kind = "startTrading" /\ op.ok /\ op.status.known THEN 1 ELSE 0
      dAuto == IF op.kind = "autoload" THEN 1 ELSE 0
  IN /\ TornDown
     /\ op.phase = "resp"
     /\ stepTimers + dStep <= MaxTimers
     /\ autoLoadTimers + dAuto <= MaxTimers
     /\ inflight' = inflight (-) One(op)
     /\ lastIsRunningRef' = b.lastRun
     /\ isAutoLoadingRef' = b.autoLoading
     /\ stepTimers' = stepTimers + dStep
     /\ autoLoadTimers' = autoLoadTimers + dAuto
     /\ UNCHANGED DisposedState
     /\ UNCHANGED <<tradeVars, variant, mounted, lastStrategyRef, isInitializedRef,
                    mockCompetitionState, mockStrategyState, calls, lastEvent>>

\* The timer of setStep fires after the unmount: setCurrentStep is dropped.
StaleStepTimerFires ==
  /\ TornDown
  /\ stepTimers > 0
  /\ stepTimers' = stepTimers - 1
  /\ UNCHANGED DisposedState
  /\ UNCHANGED <<tradeVars, variant, mounted, lastIsRunningRef, lastStrategyRef, isInitializedRef,
                 isAutoLoadingRef, mockCompetitionState, mockStrategyState, inflight,
                 autoLoadTimers, calls, lastEvent>>

NextTeardown ==
  \/ Mount
  \/ ~TornDown /\ handleStartCompetition
  \/ ~TornDown /\ handleStartTrading
  \/ ~TornDown /\ handleGenerateStrategy
  \/ ~TornDown /\ handlePauseTrading
  \/ ~TornDown /\ handleContinueTrading
  \/ ~TornDown /\ handleRestartCompetition
  \/ ~TornDown /\ handleRestartFromTrading
  \/ Unmount
  \/ \E op \in Ops : RequestFails(op)
  \/ \E op \in Ops : ServerPost(op)
  \/ \E op \in Ops : ServerGet(op)
  \/ \E op \in Ops : ~TornDown /\ ResolveStart(op)
  \/ \E op \in Ops : ~TornDown /\ ResolveStartTrading(op)
  \/ \E op \in Ops : ~TornDown /\ ResolveRestart(op)
  \/ \E op \in Ops : ~TornDown /\ ResolvePauseResume(op)
  \/ \E op \in Ops : ~TornDown /\ ResolveGenerate(op)
  \/ \E op \in Ops : ~TornDown /\ ResolveAutoLoad(op)
  \/ \E op \in Ops : ~TornDown /\ ResolveFetchStatus(op)
  \/ \E op \in Ops : StaleResponse(op)
  \/ ~TornDown /\ StepTimerFires
  \/ StaleStepTimerFires
  \/ AutoLoadTimerFires

SpecTeardown == Init /\ [][NextTeardown]_vars

\* ------------------------------------------- operations run to their end
\* The operations that set the loading and generating flags (start,
\* startTrading, generate) with the network and the event loop doing their
\* part: fetchAPI aborts a request after its timeout, so every request in
\* flight is answered or fails; a settled promise runs its continuation;
\* a timer started with setTimeout fires.
NextOperations ==
  \/ Mount
  \/ handleStartCompetition
  \/ handleStartTrading
  \/ handleGenerateStrategy
  \/ \E op \in Ops : RequestFails(op)
  \/ \E op \in Ops : ServerPost(op)
  \/ \E op \in Ops : ServerGet(op)
  \/ \E op \in Ops : ResolveStart(op)
  \/ \E op \in Ops : ResolveStartTrading(op)
  \/ \E op \in Ops : ResolveGenerate(op)
  \/ \E op \in Ops : ResolveAutoLoad(op)
  \/ \E op \in Ops : ResolveFetchStatus(op)
  \/ StepTimerFires
  \/ AutoLoadTimerFires

\* What the network and the event loop do on their own: a request in
\* flight is answered, fails or times out, the continuation of a settled
\* request runs, a timer fires, the mount effects run.
Progress ==
  \/ Mount
  \/ \E op \in Ops : RequestFails(op) \/ ServerPost(op) \/ ServerGet(op)
  \/ \E op \in Ops : \/ ResolveStart(op) \/ ResolveStartTrading(op) \/ ResolveGenerate(op)
                     \/ ResolveAutoLoad(op) \/ ResolveFetchStatus(op)
  \/ StepTimerFires
  \/ AutoLoadTimerFires

SpecOperations == Init /\ [][NextOperations]_vars /\ WF_vars(Progress)

\* ------------------------------------------- a restart and late answers
\* The controller of Spec in the runs where the competition is started and
\* strategies are generated, then restarted (confirmed, and the restart
\* succeeds), and the server answers nothing but the restart once the
\* restart has been called: an answer to a generate or an auto-load that
\* is delivered later was fetched before the restart.
RestartCalled == calls > MaxCalls
RestartDone == RestartCalled /\ \A o \in Ops : o.kind # "restart"

LateEarlierCall ==
  /\ calls < MaxCalls
  /\ \/ Send("start", StartBatch(View))
     \/ Send("generate", GenerateBatch(View))

LateRestart == calls = MaxCalls /\ Send("restart", [View EXCEPT !.error = NULL])

LateServerPost(op) ==
  /\ op.kind = "restart" \/ ~RestartCalled
  /\ ServerPostSucceeds(op)

LateServerGet(op) == ~RestartCalled /\ ServerGet(op)

NextLate ==
  \/ Mount
  \/ LateEarlierCall
  \/ LateRestart
  \/ \E op \in Ops : LateServerPost(op)
  \/ \E op \in Ops : LateServerGet(op)
  \/ \E op \in Ops : ResolveStart(op)
  \/ \E op \in Ops : ResolveGenerate(op)
  \/ \E op \in Ops : ResolveRestart(op)
  \/ \E op \in Ops : ResolveAutoLoad(op)
  \/ \E op \in Ops : ResolveFetchStatus(op)
  \/ AutoLoadTimerFires

SpecLate == Init /\ [][NextLate]_vars

\* --------------------------------------- a restart before the step delay
\* The start-to-trading flow continued: once Start Trading has succeeded
\* and its STEP_DELAY timer is pending, a restart is called (confirmed);
\* it succeeds.
DelayRestart ==
  /\ calls = 3 /\ inflight = EmptyBag /\ stepTimers > 0
  /\ Send("restart", [View EXCEPT !.error = NULL])

\* that restart has resolved
RestartedSince == calls = 4 /\ Count(inflight, "restart") = 0

NextDelay ==
  \/ Mount
  \/ ScenarioStart
  \/ ScenarioGenerate
  \/ ScenarioStartTrading
  \/ DelayRestart
  \/ \E op \in Ops : ServerPostSucceeds(op)
  \/ \E op \in Ops : ServerGet(op)
  \/ \E op \in Ops : ResolveStart(op)
  \/ \E op \in Ops : ResolveGenerate(op)
  \/ \E op \in Ops : ResolveStartTrading(op)
  \/ \E op \in Ops : ResolveRestart(op)
  \/ \E op \in Ops : ResolveAutoLoad(op)
  \/ \E op \in Ops : ResolveFetchStatus(op)
  \/ StepTimerFires
  \/ AutoLoadTimerFires

SpecDelay == InitScenario /\ [][NextDelay]_vars

\* ------------------------------------------------------ a human trade
\* useTrade with the form of StockCard.jsx and the data of useStockDetail.
\* Prices, balances and quantities are whole numbers; the text of the
\* quantity input is a sequence of characters.
QtyChars == {"0", "1", "-", " "}
Digits == <<"0", "1", "2", "3", "4", "5", "6", "7", "8", "9">>

RECURSIVE TrimLeft(_)
TrimLeft(t) == IF t # <<>> /\ Head(t) = " " THEN TrimLeft(Tail(t)) ELSE t
RECURSIVE TrimRight(_)
TrimRight(t) ==
  IF t # <<>> /\ t[Len(t)] = " " THEN TrimRight(SubSeq(t, 1, Len(t) - 1)) ELSE t
\* String.prototype.trim
Trim(t) == TrimRight(TrimLeft(t))

\* String(n) of a whole number
RECURSIVE NumberToString(_)
NumberToString(n) ==
  IF n < 0 THEN <<"-">> \o NumberToString(0 - n)
  ELSE IF n < 10 THEN <<Digits[n + 1]>>
  ELSE NumberToString(n \div 10) \o <<Digits[(n % 10) + 1]>>

RECURSIVE DigitsPrefix(_)
DigitsPrefix(t) ==
  IF t # <<>> /\ (\E i \in 1..10 : Digits[i] = Head(t)) THEN <<Head(t)>> \o DigitsPrefix(Tail(t)) ELSE <<>>
RECURSIVE DigitsValue(_)
DigitsValue(d) ==
  IF d = <<>> THEN 0
  ELSE 10 * DigitsValue(SubSeq(d, 1, Len(d) - 1)) + (CHOOSE i \in 0..9 : Digits[i + 1] = d[Len(d)])

\* parseInt(t, 10): leading white space, an optional sign, then the longest
\* run of digits; NaN when there is no digit there.
parseInt(t) ==
  LET u == TrimLeft(t)
      signed == u # <<>> /\ Head(u) \in {"-", "+"}
      d == DigitsPrefix(IF signed THEN Tail(u) ELSE u)
  IN [nan |-> d = <<>>,
      val |-> IF signed /\ Head(u) = "-" THEN 0 - DigitsValue(d) ELSE DigitsValue(d)]


\* validateTrade without its SELL validation
validateTrade_BuyOnly(action, quantity, stock, accountBalance, position) ==
  IF quantity = 0 \/ quantity <= 0 THEN [valid |-> FALSE, error |-> "Invalid quantity"]
  ELSE IF stock.current_price = 0 \/ stock.current_price <= 0 THEN [valid |-> FALSE, error |-> "Invalid stock price"]
  ELSE LET totalCost == stock.current_price * quantity IN
    IF action = "BUY" /\ accountBalance <= 0 THEN [valid |-> FALSE, error |-> "Insufficient balance. Your account balance is $0.00"]
    ELSE IF action = "BUY" /\ accountBalance < totalCost THEN [valid |-> FALSE, error |-> "Insufficient balance. You have $..., but need $..."]
    ELSE [valid |-> TRUE, error |-> NULL]

\* validateTrade(tradeAction, tradeQuantity, stock, accountBalance,
\* accountPositions, ticker); position is accountPositions[ticker.toUpperCase()]
validateTrade(action, quantity, stock, accountBalance, position) ==
  IF quantity = 0 \/ quantity <= 0 THEN [valid |-> FALSE, error |-> "Invalid quantity"]
  ELSE IF stock.current_price = 0 \/ stock.current_price <= 0 THEN [valid |-> FALSE, error |-> "Invalid stock price"]
  ELSE LET totalCost == stock.current_price * quantity
           currentQuantity == IF position.owned THEN position.quantity ELSE 0
       IN
    IF action = "BUY" /\ accountBalance <= 0 THEN [valid |-> FALSE, error |-> "Insufficient balance. Your account balance is $0.00"]
    ELSE IF action = "BUY" /\ accountBalance < totalCost THEN [valid |-> FALSE, error |-> "Insufficient balance. You have $..., but need $..."]
    ELSE IF action = "SELL" /\ currentQuantity <= 0 THEN [valid |-> FALSE, error |-> "You don't own any shares of .... Cannot sell."]
    ELSE IF action = "SELL" /\ currentQuantity < quantity THEN [valid |-> FALSE, error |-> "Insufficient shares. You own ... shares, but trying to sell ... shares."]
    ELSE [valid |-> TRUE, error |-> NULL]

\* What fetchStockDetailData can return: the stock is there (its price may
\* be missing, written 0); without a human account the balance is 0 and
\* there are no positions.
LoadedTradeProps ==
  {p \in [stock : [present : {TRUE}, current_price : 0..MaxAmount],
          accountId : {0, 1},
          accountBalance : 0..MaxAmount,
          position : [owned : BOOLEAN, quantity : 0..MaxAmount],
          refetch : {FALSE}] :
     /\ p.accountId = 0 => p.accountBalance = 0 /\ ~p.position.owned
     /\ ~p.position.owned => p.position.quantity = 0}

TradeFrame == UNCHANGED <<variant, mounted, competitionStatus, parentStatus, strategy,
                          generatingStrategy, loading, error, currentStep, lastIsRunningRef,
                          lastStrategyRef, isInitializedRef, isAutoLoadingRef,
                          mockCompetitionState, mockStrategyState, inflight, stepTimers,
                          autoLoadTimers, calls>>

InitTrade ==
  /\ variant = "named"
  /\ mounted = TRUE
  /\ competitionStatus = NoStatus
  /\ parentStatus = NoStatus
  /\ strategy = NULL
  /\ generatingStrategy = FALSE
  /\ loading = FALSE
  /\ error = NULL
  /\ currentStep = START
  /\ lastIsRunningRef = NULL
  /\ lastStrategyRef = NULL
  /\ isInitializedRef = FALSE
  /\ isAutoLoadingRef = FALSE
  /\ mockCompetitionState = Status(FALSE, FALSE)
  /\ mockStrategyState = NULL
  /\ inflight = EmptyBag
  /\ stepTimers = 0
  /\ autoLoadTimers = 0
  /\ calls = 0
  /\ lastEvent = Event("init", "none", FALSE, NoSnapshot)
  /\ TradeIdle

\* useStockDetail's fetch (on mount, and again after a successful trade)
\* delivers its data.
StockDetailLoads ==
  /\ tradeProps.refetch
  /\ tradeProps' \in LoadedTradeProps
  /\ lastEvent' = Other
  /\ UNCHANGED <<tradeAction, tradeQuantity, trading, tradeSuccess, tradeError, tradeRequests>>
  /\ TradeFrame

\* the select's onChange (StockCard.jsx line 132), disabled while trading
setTradeAction(a) ==
  /\ ~trading
  /\ a # tradeAction
  /\ tradeAction' = a
  /\ lastEvent' = Other
  /\ UNCHANGED <<tradeQuantity, trading, tradeSuccess, tradeError, tradeProps, tradeRequests>>
  /\ TradeFrame

\* the text shown in the quantity input
QuantityText == IF tradeQuantity.type = "string" THEN tradeQuantity.str
                ELSE NumberToString(tradeQuantity.num)

\* the quantity input's onChange: a character typed or deleted at the end
QuantityChange ==
  /\ ~trading
  /\ \/ \E c \in QtyChars : /\ Len(QuantityText) < QtyLen
                            /\ tradeQuantity' = Str(Append(QuantityText, c))
     \/ /\ QuantityText # <<>>
        /\ tradeQuantity' = Str(SubSeq(QuantityText, 1, Len(QuantityText) - 1))
  /\ lastEvent' = Other
  /\ UNCHANGED <<tradeAction, trading, tradeSuccess, tradeError, tradeProps, tradeRequests>>
  /\ TradeFrame

\* the quantity input's onBlur (StockCard.jsx lines 155-167)
QuantityBlur ==
  /\ ~trading
  /\ tradeQuantity.type = "string"
  /\ LET numValue == parseInt(Trim(tradeQuantity.str)) IN
     tradeQuantity' = IF Trim(tradeQuantity.str) = <<>> THEN Num(1)
                      ELSE IF numValue.nan \/ numValue.val < 1 THEN Num(1)
                      ELSE Num(numValue.val)
  /\ lastEvent' = Other
  /\ UNCHANGED <<tradeAction, trading, tradeSuccess, tradeError, tradeProps, tradeRequests>>
  /\ TradeFrame

\* handleTradeSubmit returns having set the error e.
TradeRejected(e) ==
  /\ tradeError' = e
  /\ UNCHANGED <<tradeAction, tradeQuantity, trading, tradeSuccess, tradeProps, tradeRequests>>

\* const tradeData = {...}; await tradeService.executeTradeService(tradeData)
TradeData(quantity) ==
  [account_id |-> tradeProps.accountId, action |-> tradeAction, quantity |-> quantity,
   phase |-> "post", ok |-> FALSE]

\* handleTradeSubmit up to its await (useTrade.js lines 24-73); the submit
\* button is disabled while trading (StockCard.jsx line 216).
handleTradeSubmit ==
  /\ ~trading
  /\ LET quantityValue == IF tradeQuantity.type = "string" THEN Trim(tradeQuantity.str)
                          ELSE NumberToString(tradeQuantity.num)
         parsedQuantity == parseInt(quantityValue)
         validation == validateTrade(tradeAction, parsedQuantity.val, tradeProps.stock,
                                     tradeProps.accountBalance, tradeProps.position)
     IN IF ~tradeProps.stock.present THEN TradeRejected("Stock information is missing")
        ELSE IF tradeProps.accountId = 0 THEN TradeRejected("Account ID is missing")
        ELSE IF parsedQuantity.nan \/ parsedQuantity.val <= 0 THEN TradeRejected("Invalid quantity. Please enter a positive number.")
        ELSE IF ~validation.valid THEN TradeRejected(validation.error)
        ELSE /\ trading' = TRUE
             /\ tradeError' = NULL
             /\ tradeSuccess' = NULL
             /\ tradeRequests' = tradeRequests (+) One(TradeData(parsedQuantity.val))
             /\ UNCHANGED <<tradeAction, tradeQuantity, tradeProps>>
  /\ lastEvent' = Event("tradeSubmit", "none", tradeRequests' # tradeRequests, NoSnapshot)
  /\ TradeFrame

\* The server answers a trade request, or the request fails.
ServerTrade(op) ==
  /\ op.phase = "post"
  /\ \E ok \in BOOLEAN :
       tradeRequests' = (tradeRequests (-) One(op)) (+) One([op EXCEPT !.phase = "resp", !.ok = ok])
  /\ lastEvent' = Other
  /\ UNCHANGED <<tradeAction, tradeQuantity, trading, tradeSuccess, tradeError, tradeProps>>
  /\ TradeFrame

\* handleTradeSubmit after its await (useTrade.js lines 75-92); onSuccess
\* is useStockDetail's refetch.
ResolveTrade(op) ==
  /\ op.phase = "resp"
  /\ tradeRequests' = tradeRequests (-) One(op)
  /\ IF op.ok
     THEN /\ tradeSuccess' = "Trade executed successfully! ..."
          /\ tradeQuantity' = Num(1)
          /\ tradeProps' = [tradeProps EXCEPT !.refetch = TRUE]
          /\ UNCHANGED tradeError
     ELSE /\ tradeError' = "Failed to execute trade"
          /\ UNCHANGED <<tradeSuccess, tradeQuantity, tradeProps>>
  /\ trading' = FALSE
  /\ lastEvent' = Other
  /\ UNCHANGED tradeAction
  /\ TradeFrame

NextTrade ==
  \/ StockDetailLoads
  \/ \E a \in {"BUY", "SELL"} : setTradeAction(a)
  \/ QuantityChange
  \/ QuantityBlur
  \/ handleTradeSubmit
  \/ \E op \in BagToSet(tradeRequests) : ServerTrade(op)
  \/ \E op \in BagToSet(tradeRequests) : ResolveTrade(op)

SpecTrade == InitTrade /\ [][NextTrade]_vars

\* ================================================================ claims
Run == IsRunning(competitionStatus)
Has == Truthy(strategy)
HandlerKinds == {"start", "startTrading", "restart", "generate", "pause", "resume"}

\* The last client step was the resolution of a handler that was called
\* with nothing else pending and ran without interleaving.
Resolved(kinds, ok) == lastEvent.ev = "resolve" /\ lastEvent.kind \in kinds /\ lastEvent.ok = ok

\* The responses this step hands to their continuations.
Delivered == {op \in Ops : op.phase = "resp" /\ CopiesIn(op, inflight') < CopiesIn(op, inflight)}

\* This step sets the step by an explicit override rather than by the sync
\* rule: start or restart success, or the startTrading timer.
Forced ==
  \/ /\ \E op \in Delivered : op.kind \in {"start", "restart"} /\ op.ok
     /\ currentStep' = STRATEGY
  \/ stepTimers' < stepTimers /\ currentStep' = TRADING

\* C1 (as stated): in every state of the mounted controller the step is
\* Trading only if isRunning, Strategy only if not isRunning and a strategy
\* is present, and Start when neither holds.
C1_StepConsistentWithStatus ==
  mounted => /\ (currentStep = TRADING => Run)
             /\ (currentStep = STRATEGY => ~Run /\ Has)
             /\ (~Run /\ ~Has => currentStep = START)

\* C1 (amended): whenever the step changes, it was either forced (start or
\* restart success to Strategy, the startTrading timer to Trading) or set
\* by the sync rule to the step the three-way rule gives for the presence
\* of the strategy and the isRunning of the status now held, or of the
\* status the response just delivered.
C1_StepSetConsistently ==
  [][currentStep' # currentStep
       => \/ Forced
          \/ currentStep' = getInitialStep(Run', Has')
          \/ \E op \in Delivered :
               /\ op.kind \in StatusKinds /\ op.ok
               /\ currentStep' = getInitialStep(IsRunning(op.status), Has')]_vars

C1_Witness ==
  /\ Resolved({"generate"}, TRUE)
  /\ lastEvent.pre.step = START /\ currentStep = STRATEGY /\ ~Run /\ Has

\* C2: after Start Competition called on step Start resolves successfully
\* (no other operation interleaved), the step is Strategy, the last-seen
\* trackers match the new status, and the step therefore stays Strategy.
C2_StartStaysOnStrategy ==
  Resolved({"start"}, TRUE) /\ lastEvent.pre.step = START
    => /\ currentStep = STRATEGY
       /\ lastIsRunningRef = B2S(Run)
       /\ lastStrategyRef = strategy

\* C3: a step that changes (isRunning, hasStrategy) from (false,false) to
\* (true,false) while loading leaves the step unchanged (unless it forces
\* one), and when that change is pending and a step turns loading off
\* without forcing a step, the step becomes Trading.
C3_LoadingSuppression ==
  [][/\ Suppressed(competitionStatus, strategy, loading, competitionStatus', strategy', loading')
          => currentStep' = currentStep \/ Forced
     /\ lastEvent.sup /\ loading /\ ~loading' /\ Run' /\ ~Has' /\ ~Forced
          => currentStep' = TRADING]_vars

\* C4: at creation the step is the three-way rule of the current
\* (isRunning, hasStrategy) (Trading at once when isRunning), and the
\* first evaluation of the sync effect, finding the trackers seeded,
\* changes no step.
C4_InitialStepSeeded ==
  [][~mounted /\ mounted'
       => /\ currentStep = getInitialStep(Run, Has)
          /\ currentStep' = currentStep]_vars

\* The reference rule of C5, from the trackers before and the props after.
ReferenceStep(prevRun, prevStrat, run, strat, step) ==
  IF prevRun = "false" /\ run THEN TRADING
  ELSE IF ~run /\ ~Truthy(prevStrat) /\ Truthy(strat) THEN STRATEGY
  ELSE IF ~run /\ Truthy(prevStrat) /\ ~Truthy(strat) THEN START
  ELSE step

\* C5: a re-render of the steps hook with loading false gives the step of
\* the reference rule: Trading if isRunning went false -> true, else
\* Strategy if not running and the strategy went absent -> present, else
\* Start if not running and it went present -> absent, else no change.
C5_SyncRuleMatchesReference ==
  [][lastEvent'.ev = "rerender" /\ ~loading'
       => currentStep' = ReferenceStep(lastIsRunningRef, lastStrategyRef, Run', strategy', currentStep)]_vars

C5_Witness ==
  /\ variant = "named" /\ lastEvent.ev = "rerender" /\ ~loading
  /\ currentStep = TRADING /\ Run /\ lastIsRunningRef = "true"

\* C6: a re-render of the steps hook in which isRunning and the presence
\* of the strategy are what they were (only the text or loading differ)
\* changes no step.
C6_Idempotent ==
  [][lastEvent'.ev = "rerender" /\ Run' = Run /\ Has' = Has => currentStep' = currentStep]_vars

C6_Witness ==
  /\ lastEvent.ev = "rerender" /\ ~Run /\ strategy = "S2" /\ lastStrategyRef = "S2"
  /\ ~loading /\ currentStep = START

\* C7: after a start or confirmed restart resolves successfully (no other
\* operation interleaved) the status is running and unpaused, the strategy
\* is null and the step is Strategy.
C7_AfterStartOrRestart ==
  Resolved({"start", "restart"}, TRUE)
    => /\ competitionStatus = Status(TRUE, FALSE)
       /\ strategy = NULL
       /\ currentStep = STRATEGY

\* C8: after a mutating operation fails (no other operation interleaved)
\* an error is shown and status, strategy and step are what they were when
\* the operation was called.
C8_FailureRestoresState ==
  Resolved(HandlerKinds, FALSE)
    => /\ error # NULL
       /\ competitionStatus = lastEvent.pre.status
       /\ strategy = lastEvent.pre.strategy
       /\ currentStep = lastEvent.pre.step

\* C9: the call of a mutating operation changes neither status nor
\* strategy nor step before its response arrives.
C9_NoChangeBeforeResponse ==
  [][calls' = calls + 1
       => /\ competitionStatus' = competitionStatus
          /\ strategy' = strategy
          /\ currentStep' = currentStep]_vars

\* C10: startTrading called with a null strategy sends no request, shows
\* the validation error and leaves status, step and loading unchanged.
C10_ValidationIsLocal ==
  [][calls' = calls + 1 /\ lastEvent'.kind = "startTrading" /\ ~Truthy(strategy)
       => /\ inflight' = inflight
          /\ error' = ValidationMsg
          /\ competitionStatus' = competitionStatus
          /\ currentStep' = currentStep
          /\ loading' = loading
          /\ mockCompetitionState' = mockCompetitionState]_vars

C10_Witness ==
  /\ lastEvent.ev = "validation" /\ lastEvent.kind = "startTrading"
  /\ error = ValidationMsg /\ strategy = NULL /\ ~loading

\* C11: after startTrading (called with a strategy, nothing else
\* interleaved) resolves successfully the status is running, and from then
\* on the step eventually is Trading (the settle-delay timer fires).
C11_StartTradingLeadsToTrading ==
  /\ [](Resolved({"startTrading"}, TRUE) => Run /\ Truthy(lastEvent.pre.strategy))
  /\ (Resolved({"startTrading"}, TRUE) ~> currentStep = TRADING)

C11_Witness ==
  /\ Resolved({"startTrading"}, TRUE) /\ lastEvent.pre.step = STRATEGY
  /\ Run /\ currentStep = STRATEGY /\ stepTimers = 1

\* C12: a pause called on step Trading with the status running and
\* unpaused that resolves successfully gives is_paused true with the step
\* still Trading, and a resume called in that state that resolves
\* successfully gives running and unpaused with the step still Trading:
\* the status and step before the pause.
C12_PauseResumeRoundTrip ==
  /\ Resolved({"pause"}, TRUE) /\ lastEvent.pre.status = Status(TRUE, FALSE)
                               /\ lastEvent.pre.step = TRADING
       => competitionStatus = Status(TRUE, TRUE) /\ currentStep = TRADING
  /\ Resolved({"resume"}, TRUE) /\ lastEvent.pre.status = Status(TRUE, TRUE)
                                /\ lastEvent.pre.step = TRADING
       => competitionStatus = Status(TRUE, FALSE) /\ currentStep = TRADING

\* the resume of a round trip has resolved: the status was paused only
\* through the pause before it
C12_Witness ==
  /\ Resolved({"resume"}, TRUE) /\ lastEvent.pre.status = Status(TRUE, TRUE)
  /\ lastEvent.pre.step = TRADING /\ calls = 2
  /\ competitionStatus = Status(TRUE, FALSE) /\ currentStep = TRADING
  /\ mockCompetitionState = Status(TRUE, FALSE)

\* C13: a restart whose confirmation is declined sends no request, ends
\* as cancelled (neither a success nor a failure of a request), leaves
\* status, strategy and step unchanged, and shows no error.
C13_RestartCancelIsNoOp ==
  [][calls' = calls + 1 /\ lastEvent'.ev = "cancel"
       => /\ inflight' = inflight
          /\ lastEvent'.kind = "restart" /\ ~lastEvent'.ok
          /\ competitionStatus' = competitionStatus
          /\ strategy' = strategy
          /\ currentStep' = currentStep
          /\ loading' = loading
          /\ error' = NULL
          /\ mockCompetitionState' = mockCompetitionState
          /\ mockStrategyState' = mockStrategyState]_vars

C13_Witness ==
  /\ lastEvent.ev = "cancel" /\ lastEvent.kind = "restart"
  /\ Run /\ Has /\ currentStep = TRADING /\ error = NULL /\ inflight = EmptyBag

\* C14: whatever status the hook is fed, the status it holds satisfies
\* is_paused => is_running, and a status that is not running is shown as
\* stopped, never as paused.
C14_PausedImpliesRunning ==
  mounted => /\ (IsPaused(competitionStatus) => IsRunning(competitionStatus))
             /\ (~IsRunning(competitionStatus) => StatusDisplay = "stopped")

\* C15: a request of a mutating operation never leaves its service
\* function as an exception: it ends as a result, {success: false, error}
\* without status or strategy when a network call failed, {success: true}
\* with the status (the strategy text for generate) otherwise.
C15_ServiceNeverThrows ==
  \A op \in Ops :
    op.kind \in HandlerKinds
      => /\ op.phase \in {"post", "get", "resp"}
         /\ op.phase = "resp"
              => IF op.ok
                 THEN IF op.kind = "generate" THEN Truthy(op.strat) ELSE op.status.known
                 ELSE op.status = NoStatus /\ op.strat = NULL

\* generate: the POST succeeded, the GET of the latest strategy failed
C15_Witness ==
  \E op \in Ops : /\ op.kind = "generate" /\ op.phase = "resp" /\ ~op.ok
                   /\ mockStrategyState = "S1" /\ generatingStrategy

\* C16: in the flow start, generate, startTrading with every call
\* succeeding, the step is Start until the start has been answered,
\* Strategy from then until startTrading has been answered and its delay
\* has passed (with the strategy displayed once generate was answered),
\* and Trading with the status running and unpaused at the end; generate
\* is posted once.
C16_EndToEnd ==
  mounted /\ Quiet =>
    /\ calls = 0 => currentStep = START
    /\ calls = 1 => currentStep = STRATEGY
    /\ calls = 2 => currentStep = STRATEGY /\ Has
    /\ calls = 3 => /\ currentStep = TRADING /\ Has
                    /\ competitionStatus = Status(TRUE, FALSE)

\* The sections of a text, and the sections a payload carries in the
\* order summary, selected stocks, trading rules, trading strategies,
\* stock preferences, legacy actions.
SectionTags == {"summary", "selected_stocks", "trading_rules", "trading_strategies",
                "stock_preferences", "actions"}
IsSection(t) == t \in SectionTags
Sections(text) == SelectSeq(text, IsSection)
PresentSections(p) ==
  Block(p.summary, "summary")
  \o Block(p.selected_stocks \/ p.content_selected_stocks, "selected_stocks")
  \o Block(p.trading_rules, "trading_rules")
  \o Block(p.trading_strategies, "trading_strategies")
  \o Block(p.stock_preferences, "stock_preferences")
  \o Block(p.actions, "actions")

\* C17: the text formatStrategyContent makes of a payload with a content
\* object holds exactly the sections the payload carries, in the order
\* summary, selected stocks, trading rules, trading strategies, stock
\* preferences, legacy actions.
C17_SectionsInFixedOrder ==
  strategy # <<>> /\ mockStrategyState.content = "object"
    => Sections(strategy) = PresentSections(mockStrategyState)

\* The strategy fetches in flight, and the step that starts an auto-load.
AutoLoadStarts ==
  CopiesIn(NewOp("autoload", "get", View), inflight')
    > CopiesIn(NewOp("autoload", "get", View), inflight)

\* C18: an auto-load fetch is started only with the step Strategy (as
\* held, or as just forced by a start or restart), no strategy, no
\* generate in flight and no other auto-load in flight or in its
\* cooldown; so at most one auto-load fetch is in flight at a time.
C18_AutoLoadGuarded ==
  [][/\ AutoLoadStarts
          => /\ \/ currentStep' = STRATEGY
                \/ \E op \in Delivered : op.kind \in {"start", "restart"} /\ op.ok
             /\ strategy' = NULL
             /\ InFlight(inflight', "generate") = {}
             /\ Count(inflight', "autoload") = 1
             /\ autoLoadTimers' = 0
     /\ Count(inflight', "autoload") <= 1]_vars

\* C19: generatingStrategy is set exactly while a generate is in flight
\* (from the call to the end of the continuation, whatever its outcome),
\* and while a generate is in flight no other strategy fetch is: no second
\* generate and no auto-load.
C19_GeneratingExcludesFetches ==
  /\ generatingStrategy <=> InFlight(inflight, "generate") # {}
  /\ InFlight(inflight, "generate") # {}
       => Count(inflight, "generate") = 1 /\ Count(inflight, "autoload") = 0

\* C20: when the answer to an auto-load is "No strategy report
\* available." or the fetch failed, the strategy is left as it was (null
\* if it was null) and so is the error; an answer with a report text
\* stores that text, and the error is left as it was.
C20_AutoLoadFailsSilently ==
  [][\A op \in Delivered :
       op.kind = "autoload"
         => /\ error' = error
            /\ strategy' = IF op.ok /\ op.strat \notin {NULL, Sentinel}
                            THEN op.strat ELSE strategy]_vars

\* an auto-load has been answered (its cooldown is running) without a
\* report, while an error of an earlier operation is shown
C20_Witness ==
  /\ autoLoadTimers = 1 /\ inflight = EmptyBag /\ isAutoLoadingRef
  /\ strategy = NULL /\ mockStrategyState = NULL
  /\ error = NetErr /\ currentStep = STRATEGY

\* C21: once the component is torn down no timer is pending (the step
\* timer and the auto-load cooldown were cleared and no continuation starts
\* another), and no later step changes status, strategy, step, loading or
\* error.
C21_NoUpdateAfterTeardown ==
  [][TornDown'
       => /\ stepTimers' = 0 /\ autoLoadTimers' = 0
          /\ TornDown => UNCHANGED <<competitionStatus, strategy, currentStep, loading, error>>]_vars

\* The batches of state the events of the controller set: the handlers up
\* to their await, the continuations of the responses in flight, the step
\* timer.
EventBatches ==
  {StartBatch(View), StartTradingBatch(View), GenerateBatch(View),
   [View EXCEPT !.error = NULL], [View EXCEPT !.error = ValidationMsg],
   [View EXCEPT !.step = TRADING]}
  \cup {After(View, op) : op \in {o \in Ops : o.phase = "resp"}}

\* Rendering r (after p) and running the effects stops setting state
\* within fuel further passes.
RECURSIVE SettlesWithin(_, _, _, _)
SettlesWithin(first, p, r, fuel) ==
  LET n == Pass(first, p, r) IN
  \/ RenderState(n) = RenderState(r)
  \/ fuel > 0 /\ SettlesWithin(FALSE, r, n, fuel - 1)

\* C22: from every state, the render and effect passes that follow any
\* event (a handler call, a response with its status notification going up
\* to the Dashboard and coming down as the prop, the timer, the mount)
\* stop setting state after finitely many passes: the controller comes to
\* rest and the step stops changing.
C22_StatusSyncSettles ==
  /\ ~mounted => SettlesWithin(TRUE, View, View, MaxPasses)
  /\ mounted => \A b \in EventBatches : SettlesWithin(FALSE, View, b, MaxPasses)

\* a status notification that differs from the Dashboard's status is about
\* to be delivered, and the passes after it run more than once
C22_Witness ==
  \E op \in Ops :
    /\ op.phase = "resp" /\ op.kind \in StatusKinds /\ op.ok
    /\ op.status # parentStatus /\ parentStatus.known
    /\ ~SettlesWithin(FALSE, View, After(View, op), 0)

C25_NoStrategyFromBeforeRestart ==
  RestartDone => strategy = NULL

\* C26: the stored strategy is never the sentinel text "No strategy report
\* available."
C26_StrategyNeverSentinel ==
  strategy # Sentinel

\* C27: loading is true exactly while a start or startTrading request is
\* in flight (sent and its continuation not yet run).
C27_LoadingWhileInFlight ==
  mounted => (loading <=> Count(inflight, "start") + Count(inflight, "startTrading") > 0)

\* C28: when the timer of a successful startTrading fires, it does not set
\* the step if the status is not running, nor if a restart called after
\* the timer was set has meanwhile forced the step to Strategy.
C28_DelayedStepRespectsLater ==
  [][stepTimers' < stepTimers
       => /\ ~Run => currentStep' = currentStep
          /\ RestartedSince => currentStep' = currentStep]_vars

\* C29: when a generate, start, startTrading, pause or resume request is
\* answered with success, the error banner is null afterwards: an error left
\* by an earlier failed operation does not survive it.
C29_SuccessClearsError ==
  [][\A op \in Delivered :
       op.ok /\ op.kind \in {"generate", "start", "startTrading", "pause", "resume"}
         => error' = NULL]_vars

\* C30: a human trade request is sent only when the local validation
\* passes: the quantity sent is a positive integer, the stock price is
\* positive, a BUY is covered by the balance (price times quantity), a SELL
\* by the held quantity of the ticker; a submit that sends nothing sets a
\* trade error and leaves the trading flag false.
C30_TradeSentOnlyWhenValid ==
  [][lastEvent'.ev = "tradeSubmit" =>
       LET new == {d \in BagToSet(tradeRequests') :
                     CopiesIn(d, tradeRequests') > CopiesIn(d, tradeRequests)}
           price == tradeProps.stock.current_price
       IN IF new # {}
          THEN \A d \in new :
                 /\ d.quantity \in Nat \ {0}
                 /\ tradeProps.stock.present /\ price > 0
                 /\ d.action = "BUY" => tradeProps.accountBalance >= price * d.quantity
                 /\ d.action = "SELL" => /\ tradeProps.position.owned
                                         /\ tradeProps.position.quantity >= d.quantity
          ELSE /\ tradeError' # NULL
               /\ tradeRequests' = tradeRequests
               /\ ~trading'
     ]_vars
C30_Witness ==
  /\ lastEvent.ev = "tradeSubmit" /\ lastEvent.ok
  /\ tradeQuantity.type = "string" /\ tradeQuantity.str # Trim(tradeQuantity.str)
  /\ \E d \in BagToSet(tradeRequests) : d.action = "SELL" /\ d.phase = "post"
  /\ trading

====
